---- MODULE Spec2Model ----
(***************************************************************************)
(* Todo API of the MERN todo application: the express router of the todo  *)
(* resource (GET /, GET /:id, POST /, PUT /:id, DELETE /:id) behind the   *)
(* authentication middleware, over the Todo collection.                   *)
(*                                                                         *)
(* Strings are sequences of one-character strings, so that trimming and   *)
(* parsing are computed.  A JSON value of a request is a sequence too:    *)
(* Undefined and Null are the two one-element sequences below, an         *)
(* enumerated or boolean literal is a one-element sequence holding its    *)
(* text.                                                                   *)
(***************************************************************************)
EXTENDS Integers, Sequences, FiniteSets, TLC

VARIABLES todos, nextId, now, req, res, dbOps, pending, client, net

vars == <<todos, nextId, now, req, res, dbOps, pending, client, net>>

(***************************************************************************)
(* Bounds of the model.                                                   *)
(***************************************************************************)
MaxTodos == 2
MaxListTodos == 3
MaxFetches == 4
SeedTodos == 7

(***************************************************************************)
(* JSON values.                                                           *)
(***************************************************************************)
Undefined == <<"undefined">>
Null == <<"null">>

\* String(value) of express-validator's toString: null and undefined are "".
toString(v) == IF v \in {Undefined, Null} THEN <<>> ELSE v

\* JavaScript truthiness of a string-or-missing value: "" is falsy.
Truthy(v) == v \notin {Undefined, Null, <<>>}

RECURSIVE TrimLeft(_)
TrimLeft(s) == IF s # <<>> /\ Head(s) = " " THEN TrimLeft(Tail(s)) ELSE s

RECURSIVE TrimRight(_)
TrimRight(s) ==
  IF s # <<>> /\ s[Len(s)] = " " THEN TrimRight(SubSeq(s, 1, Len(s) - 1)) ELSE s

\* validator.js trim(): whitespace off both ends.
Trim(s) == TrimRight(TrimLeft(s))

Digits == {"0", "1", "2", "3", "4", "5", "6", "7", "8", "9"}

DigitVal(c) ==
  CASE c = "0" -> 0 [] c = "1" -> 1 [] c = "2" -> 2 [] c = "3" -> 3 [] c = "4" -> 4
    [] c = "5" -> 5 [] c = "6" -> 6 [] c = "7" -> 7 [] c = "8" -> 8 [] c = "9" -> 9

RECURSIVE DecimalValue(_)
DecimalValue(s) ==
  IF s = <<>> THEN 0
  ELSE 10 * DecimalValue(SubSeq(s, 1, Len(s) - 1)) + DigitVal(s[Len(s)])

RECURSIVE LeadingDigits(_)
LeadingDigits(s) ==
  IF s # <<>> /\ Head(s) \in Digits THEN <<Head(s)>> \o LeadingDigits(Tail(s))
  ELSE <<>>

NaN == 0 - 1

\* parseInt(string): the leading decimal digits after leading whitespace, NaN
\* when there are none (signs do not occur in the modelled queries).
ParseInt(v) ==
  LET d == LeadingDigits(TrimLeft(toString(v)))
  IN  IF d = <<>> THEN NaN ELSE DecimalValue(d)

\* validator.js isInt without options: /^(?:[-+]?(?:0|[1-9][0-9]*))$/ (signs do
\* not occur in the modelled queries).
IsIntString(s) ==
  /\ s # <<>>
  /\ \A i \in 1..Len(s) : s[i] \in Digits
  /\ (Len(s) > 1 => s[1] # "0")

\* isInt({ min }) and isInt({ min, max }) on the stringified value.
IsIntMin(v, min) == IsIntString(toString(v)) /\ DecimalValue(toString(v)) >= min

IsIntRange(v, min, max) == IsIntMin(v, min) /\ DecimalValue(toString(v)) <= max

\* validator.js isBoolean: 'true', 'false', '1', '0'.
IsBoolean(v) == toString(v) \in {<<"true">>, <<"false">>, <<"1">>, <<"0">>}

\* The dates of the modelled requests that are ISO 8601.
IsoDates == {<<"2025-01-15">>}

IsISO8601(v) == toString(v) \in IsoDates

\* toDate(): the Date of an ISO 8601 string, null for anything else.
ToDate(v) == IF IsISO8601(v) THEN <<"Date", toString(v)[1]>> ELSE Null

Priorities == {<<"low">>, <<"medium">>, <<"high">>}

IsIn(v, values) == toString(v) \in values

(***************************************************************************)
(* Accounts and the authentication middleware.                            *)
(***************************************************************************)
Users == {"u1", "u2"}

NoToken == [sub |-> "", signed |-> FALSE, expired |-> FALSE]

TokenOf(u) == [sub |-> u, signed |-> TRUE, expired |-> FALSE]

NoUser == "none"

\* The bearer token resolved to a live account, or NoUser (the request is
\* answered 401 and goes no further).
authMiddleware(token) ==
  IF token.signed /\ ~token.expired /\ token.sub \in Users THEN token.sub ELSE NoUser

(***************************************************************************)
(* Requests and responses.                                                *)
(***************************************************************************)
NoBody ==
  [title |-> Undefined, description |-> Undefined, dueDate |-> Undefined,
   priority |-> Undefined, completed |-> Undefined, userId |-> Undefined]

NoQuery == [page |-> Undefined, limit |-> Undefined, search |-> Undefined]

NoId == 0

Request(method, token, id, body, query) ==
  [method |-> method, token |-> token, id |-> id, body |-> body, query |-> query]

NoTodo == [none |-> TRUE]

NoPagination == [none |-> TRUE]

Response(status, todo, list, pagination) ==
  [status |-> status, todo |-> todo, todos |-> list, pagination |-> pagination]

Status(status) == Response(status, NoTodo, <<>>, NoPagination)

\* What a handler returns: the collection afterwards, the response, and the
\* store operations it issued, each with the owner its filter names.
Outcome(store, response, ops) == [todos |-> store, res |-> response, ops |-> ops]

DbOp(op, userId) == [op |-> op, userId |-> userId]

(***************************************************************************)
(* The Todo collection.  A document is                                    *)
(*   [_id, userId, title, description, priority, dueDate, completed,     *)
(*    createdAt].                                                         *)
(***************************************************************************)
Medium == <<"medium">>

\* The schema's validation of a title: required, and a string is required to
\* be non-empty.
TitleValid(title) == Truthy(title)

\* Mongoose's cast of a boolean path.
CastBoolean(v) == toString(v) \in {<<"true">>, <<"1">>}

\* new Todo(fields): the document with the schema's defaults filled in.
NewTodo(id, fields, createdAt) ==
  [_id |-> id, userId |-> fields.userId, title |-> fields.title,
   description |-> fields.description, priority |-> fields.priority,
   dueDate |-> fields.dueDate, completed |-> FALSE, createdAt |-> createdAt]

Lower(c) == CASE c = "A" -> "a" [] c = "B" -> "b" [] OTHER -> c

\* { $regex: pattern, $options: 'i' } on a field: an unanchored, case-insensitive
\* match, where "." in the pattern matches any character; a missing field
\* matches nothing.
RegexMatches(pattern, text) ==
  /\ text # Undefined
  /\ \E i \in 0..(Len(text) - Len(pattern)) :
       \A j \in 1..Len(pattern) :
         pattern[j] = "." \/ Lower(pattern[j]) = Lower(text[i + j])

\* searchQuery: the owner filter, and with a non-empty search the $or of the
\* two regular expressions.
searchQuery(t, userId, search) ==
  /\ t.userId = userId
  /\ (Truthy(search) =>
        RegexMatches(search, t.title) \/ RegexMatches(search, t.description))

\* Mutant of ByIdAndOwner: the filter without the owner.
ByIdOnly(t, id, userId) == t._id = id

\* { _id: id, userId: userId }
ByIdAndOwner(t, id, userId) == t._id = id /\ t.userId = userId

\* Mutant of SortByCreatedAtDesc: sort({ createdAt: 1 }), oldest first.
RECURSIVE SortByCreatedAtAsc(_)
SortByCreatedAtAsc(S) ==
  IF S = {} THEN <<>>
  ELSE LET oldest == CHOOSE t \in S : \A o \in S : o.createdAt >= t.createdAt
       IN  <<oldest>> \o SortByCreatedAtAsc(S \ {oldest})

\* sort({ createdAt: -1 }): newest first.
RECURSIVE SortByCreatedAtDesc(_)
SortByCreatedAtDesc(S) ==
  IF S = {} THEN <<>>
  ELSE LET newest == CHOOSE t \in S : \A o \in S : o.createdAt <= t.createdAt
       IN  <<newest>> \o SortByCreatedAtDesc(S \ {newest})

Min(a, b) == IF a <= b THEN a ELSE b

\* skip(n).limit(m) of a cursor.
SkipLimit(seq, n, m) == SubSeq(seq, n + 1, Min(Len(seq), n + m))

\* Mutant of Ceil: Math.floor(a / b).
Floor(a, b) == a \div b

\* Math.ceil(a / b) for a >= 0, b > 0.
Ceil(a, b) == (a + b - 1) \div b

\* The paths of an update document that are set: the schema's paths of the
\* body that are not undefined.
UpdatePaths(body) == {f \in DOMAIN body : body[f] # Undefined}

\* Mutant of ApplyUpdate: the body replaces the document, so a path the body
\* leaves out falls back to its default.
ApplyOverwrite(t, body) ==
  [t EXCEPT
     !.title = IF body.title # Undefined THEN body.title ELSE @,
     !.description = body.description,
     !.dueDate = body.dueDate,
     !.priority = IF body.priority # Undefined THEN body.priority ELSE Medium,
     !.completed = CastBoolean(body.completed),
     !.userId = IF body.userId # Undefined THEN body.userId[1] ELSE @]

\* The document after $set of the body's paths, each cast to its path's type.
ApplyUpdate(t, body) ==
  [t EXCEPT
     !.title = IF body.title # Undefined THEN body.title ELSE @,
     !.description = IF body.description # Undefined THEN body.description ELSE @,
     !.dueDate = IF body.dueDate # Undefined THEN body.dueDate ELSE @,
     !.priority = IF body.priority # Undefined THEN body.priority ELSE @,
     !.completed = IF body.completed # Undefined THEN CastBoolean(body.completed) ELSE @,
     !.userId = IF body.userId # Undefined THEN body.userId[1] ELSE @]

(***************************************************************************)
(* The validation chains of the routes: the fields in error, and the      *)
(* request as the sanitizers leave it.                                    *)
(***************************************************************************)
\* a || b on numbers: NaN and 0 are falsy.
OrElse(n, default) == IF n = NaN \/ n = 0 THEN default ELSE n

listErrors(query) ==
  {f \in {"page"} : query.page # Undefined /\ ~IsIntMin(query.page, 1)}
  \cup {f \in {"limit"} : query.limit # Undefined /\ ~IsIntRange(query.limit, 1, 100)}

listSanitized(query) ==
  [query EXCEPT !.search = IF @ # Undefined THEN Trim(toString(@)) ELSE @]

\* POST /: title notEmpty() then trim(); the others optional().
createErrors(body) ==
  {f \in {"title"} : toString(body.title) = <<>>}
  \cup {f \in {"dueDate"} : body.dueDate # Undefined /\ ~IsISO8601(body.dueDate)}
  \cup {f \in {"priority"} : body.priority # Undefined /\ ~IsIn(body.priority, Priorities)}

createSanitized(body) ==
  [body EXCEPT
     !.title = Trim(toString(@)),
     !.description = IF @ # Undefined THEN Trim(toString(@)) ELSE @,
     !.dueDate = IF @ # Undefined THEN ToDate(@) ELSE @]

\* PUT /:id: every field optional().
updateErrors(body) ==
  {f \in {"title"} : body.title # Undefined /\ toString(body.title) = <<>>}
  \cup {f \in {"completed"} : body.completed # Undefined /\ ~IsBoolean(body.completed)}
  \cup {f \in {"dueDate"} : body.dueDate # Undefined /\ ~IsISO8601(body.dueDate)}
  \cup {f \in {"priority"} : body.priority # Undefined /\ ~IsIn(body.priority, Priorities)}

updateSanitized(body) ==
  [body EXCEPT
     !.title = IF @ # Undefined THEN Trim(toString(@)) ELSE @,
     !.description = IF @ # Undefined THEN Trim(toString(@)) ELSE @,
     !.dueDate = IF @ # Undefined THEN ToDate(@) ELSE @]

(***************************************************************************)
(* The route handlers, for a request the middleware let through as `user`.*)
(***************************************************************************)
\* GET /
listTodos(store, user, query) ==
  IF listErrors(query) # {} THEN Outcome(store, Status(400), <<>>)
  ELSE
    LET q == listSanitized(query)
        page == OrElse(ParseInt(q.page), 1)
        limit == OrElse(ParseInt(q.limit), 10)
        search == IF Truthy(q.search) THEN q.search ELSE <<>>
        skip == (page - 1) * limit
        found == {t \in store : searchQuery(t, user, search)}
        list == SkipLimit(SortByCreatedAtDesc(found), skip, limit)
        totalTodos == Cardinality({t \in store : searchQuery(t, user, search)})
        totalPages == Ceil(totalTodos, limit)
    IN  Outcome(store,
                Response(200, NoTodo, list,
                         [currentPage |-> page, totalPages |-> totalPages,
                          totalTodos |-> totalTodos,
                          hasNextPage |-> page < totalPages,
                          hasPrevPage |-> page > 1]),
                <<DbOp("find", user), DbOp("countDocuments", user)>>)

\* GET /:id
getTodo(store, user, id) ==
  LET match == {t \in store : ByIdAndOwner(t, id, user)}
  IN  IF match = {} THEN Outcome(store, Status(404), <<DbOp("findOne", user)>>)
      ELSE Outcome(store,
                   Response(200, CHOOSE t \in match : TRUE, <<>>, NoPagination),
                   <<DbOp("findOne", user)>>)

\* Mutant of createTodo: the owner is the one the body names, when it names one.
createTodoAs(store, user, body, id, createdAt) ==
  IF createErrors(body) # {} THEN Outcome(store, Status(400), <<>>)
  ELSE
    LET b == createSanitized(body)
        todo == NewTodo(id,
                        [title |-> b.title, description |-> b.description,
                         dueDate |-> b.dueDate,
                         priority |-> IF Truthy(b.priority) THEN b.priority ELSE Medium,
                         userId |-> IF Truthy(b.userId) THEN b.userId[1] ELSE user],
                        createdAt)
    IN  IF ~TitleValid(todo.title) THEN Outcome(store, Status(500), <<>>)
        ELSE Outcome(store \cup {todo},
                     Response(201, todo, <<>>, NoPagination),
                     <<DbOp("save", user)>>)

\* POST /
createTodo(store, user, body, id, createdAt) ==
  IF createErrors(body) # {} THEN Outcome(store, Status(400), <<>>)
  ELSE
    LET b == createSanitized(body)
        todo == NewTodo(id,
                        [title |-> b.title, description |-> b.description,
                         dueDate |-> b.dueDate,
                         priority |-> IF Truthy(b.priority) THEN b.priority ELSE Medium,
                         userId |-> user],
                        createdAt)
    IN  IF ~TitleValid(todo.title) THEN Outcome(store, Status(500), <<>>)
        ELSE Outcome(store \cup {todo},
                     Response(201, todo, <<>>, NoPagination),
                     <<DbOp("save", user)>>)

\* PUT /:id
updateTodo(store, user, id, body) ==
  IF updateErrors(body) # {} THEN Outcome(store, Status(400), <<>>)
  ELSE
    LET b == updateSanitized(body)
        match == {t \in store : ByIdAndOwner(t, id, user)}
    IN  IF "title" \in UpdatePaths(b) /\ ~TitleValid(b.title)
        THEN Outcome(store, Status(500), <<>>)
        ELSE IF match = {}
        THEN Outcome(store, Status(404), <<DbOp("findOneAndUpdate", user)>>)
        ELSE LET old == CHOOSE t \in match : TRUE
                 todo == ApplyUpdate(old, b)
             IN  Outcome((store \ {old}) \cup {todo},
                         Response(200, todo, <<>>, NoPagination),
                         <<DbOp("findOneAndUpdate", user)>>)

\* Mutant of deleteTodo: the todo is looked up and not removed.
deleteTodoKept(store, user, id) ==
  LET match == {t \in store : ByIdAndOwner(t, id, user)}
  IN  IF match = {} THEN Outcome(store, Status(404), <<DbOp("findOne", user)>>)
      ELSE Outcome(store, Status(200), <<DbOp("findOne", user)>>)

\* DELETE /:id
deleteTodo(store, user, id) ==
  LET match == {t \in store : ByIdAndOwner(t, id, user)}
  IN  IF match = {} THEN Outcome(store, Status(404), <<DbOp("findOneAndDelete", user)>>)
      ELSE Outcome(store \ match, Status(200), <<DbOp("findOneAndDelete", user)>>)

\* Mutant of router: the routes are registered before the middleware, so a
\* handler runs for the account the token names, verified or not.
routerUnguarded(store, r, id, createdAt) ==
  LET user == r.token.sub
  IN  CASE r.method = "GET /" -> listTodos(store, user, r.query)
        [] r.method = "GET /:id" -> getTodo(store, user, r.id)
        [] r.method = "POST /" -> createTodo(store, user, r.body, id, createdAt)
        [] r.method = "PUT /:id" -> updateTodo(store, user, r.id, r.body)
        [] r.method = "DELETE /:id" -> deleteTodo(store, user, r.id)

\* router.use(authMiddleware), then the route of the request's method.
router(store, r, id, createdAt) ==
  LET user == authMiddleware(r.token)
  IN  IF user = NoUser THEN Outcome(store, Status(401), <<>>)
      ELSE CASE r.method = "GET /" -> listTodos(store, user, r.query)
             [] r.method = "GET /:id" -> getTodo(store, user, r.id)
             [] r.method = "POST /" -> createTodo(store, user, r.body, id, createdAt)
             [] r.method = "PUT /:id" -> updateTodo(store, user, r.id, r.body)
             [] r.method = "DELETE /:id" -> deleteTodo(store, user, r.id)

(***************************************************************************)
(* The requests of the model.                                             *)
(***************************************************************************)
Forged == [sub |-> "u1", signed |-> FALSE, expired |-> FALSE]
Expired == [sub |-> "u1", signed |-> TRUE, expired |-> TRUE]
Orphan == [sub |-> "u3", signed |-> TRUE, expired |-> FALSE]

GoodTokens == {TokenOf(u) : u \in Users}
BadTokens == {NoToken, Forged, Expired, Orphan}

Ids(max) == 1..(max + 1)

Get(token, id) == Request("GET /:id", token, id, NoBody, NoQuery)
Post(token, body) == Request("POST /", token, NoId, body, NoQuery)
Put(token, id, body) == Request("PUT /:id", token, id, body, NoQuery)
Delete(token, id) == Request("DELETE /:id", token, id, NoBody, NoQuery)
List(token, query) == Request("GET /", token, NoId, NoBody, query)

RequestsOf(tokens, ids, posts, puts, queries) ==
  {Get(k, i) : k \in tokens, i \in ids}
  \cup {Delete(k, i) : k \in tokens, i \in ids}
  \cup {Post(k, b) : k \in tokens, b \in posts}
  \cup {Put(k[1], k[2], b) : k \in tokens \X ids, b \in puts}
  \cup {List(k, q) : k \in tokens, q \in queries}

\* Rejected by the middleware: one request of each route per bad token.
BadRequests ==
  RequestsOf(BadTokens, {1}, {[NoBody EXCEPT !.title = <<"a">>]},
             {[NoBody EXCEPT !.completed = <<"true">>]}, {NoQuery})

AccessPosts ==
  {NoBody,
   [NoBody EXCEPT !.title = <<"a">>],
   [NoBody EXCEPT !.title = <<" ", "a">>, !.completed = <<"true">>, !.userId = <<"u2">>],
   [NoBody EXCEPT !.title = <<" ", " ">>]}

AccessPuts ==
  {NoBody,
   [NoBody EXCEPT !.completed = <<"true">>],
   [NoBody EXCEPT !.completed = <<"yes">>],
   [NoBody EXCEPT !.userId = <<"u1">>],
   [NoBody EXCEPT !.userId = <<"u2">>],
   [NoBody EXCEPT !.title = <<" ">>]}

AccessQueries == {NoQuery, [NoQuery EXCEPT !.page = <<"2">>, !.limit = <<"1">>]}

AccessRequests ==
  RequestsOf(GoodTokens, Ids(MaxTodos), AccessPosts, AccessPuts, AccessQueries)
  \cup BadRequests

(***************************************************************************)
(* The state machine: one action per route, each the whole handling of    *)
(* one request.                                                           *)
(***************************************************************************)
NoRequest == Request("", NoToken, NoId, NoBody, NoQuery)

\* The list handler that has read its page and not yet counted: none at first.
\* `store` records the collection its page was read from.
NoPending == [stage |-> "none", req |-> NoRequest, list |-> <<>>, store |-> {}]

\* The TodoList component before it is mounted (its useState initial values),
\* with `shown` recording the page and search text of the response on display
\* and `sent` counting the requests the component has made or will make.
NoShown == [page |-> 0, search |-> <<"undefined">>]

Unmounted ==
  [mounted |-> FALSE, todos |-> <<>>, pagination |-> NoPagination,
   searchTerm |-> <<>>, currentPage |-> 1, showDeleteModal |-> FALSE,
   todoToDelete |-> NoTodo, error |-> FALSE, loading |-> TRUE, sent |-> 0,
   shown |-> NoShown]

Init ==
  /\ todos = {}
  /\ nextId = 1
  /\ now = 1
  /\ req = NoRequest
  /\ res = Status(0)
  /\ dbOps = <<>>
  /\ pending = NoPending
  /\ client = Unmounted
  /\ net = {}

Serve(r) ==
  \E out \in {router(todos, r, nextId, now)} :
      /\ todos' = out.todos
      /\ res' = out.res
      /\ dbOps' = out.ops
      /\ req' = r
      /\ nextId' = IF out.res.status = 201 THEN nextId + 1 ELSE nextId
      /\ now' = IF out.res.status = 201 THEN now + 1 ELSE now
      /\ UNCHANGED pending

Authenticated(r) == authMiddleware(r.token) # NoUser

\* A request made by something other than the TodoList component.
Direct(r) == Serve(r) /\ UNCHANGED <<client, net>>

Reject(R) == \E r \in R : ~Authenticated(r) /\ Direct(r)

ListTodos(R) == \E r \in R : Authenticated(r) /\ r.method = "GET /" /\ Direct(r)

GetTodo(R) == \E r \in R : Authenticated(r) /\ r.method = "GET /:id" /\ Direct(r)

CreateTodo(R, max) ==
  \E r \in R : Authenticated(r) /\ r.method = "POST /" /\ nextId <= max /\ Direct(r)

UpdateTodo(R) == \E r \in R : Authenticated(r) /\ r.method = "PUT /:id" /\ Direct(r)

DeleteTodo(R) == \E r \in R : Authenticated(r) /\ r.method = "DELETE /:id" /\ Direct(r)

Step(R, max) ==
  \/ Reject(R)
  \/ ListTodos(R)
  \/ GetTodo(R)
  \/ CreateTodo(R, max)
  \/ UpdateTodo(R)
  \/ DeleteTodo(R)

Next == Step(AccessRequests, MaxTodos)

Spec == Init /\ [][Next]_vars

(***************************************************************************)
(* The same state machine over other requests: every shape of create      *)
(* body (SpecCreate), every shape of update body and of list query        *)
(* (SpecUpdate), and pages of searched lists of two accounts (SpecList).  *)
(***************************************************************************)
IsoDate == <<"2025-01-15">>

OneUser == {TokenOf("u1")}

OneRejected == {Get(NoToken, 1)}

\* TodoForm's formData as the form starts.
formData ==
  [NoBody EXCEPT !.title = <<>>, !.description = <<>>, !.priority = <<"medium">>,
                 !.dueDate = <<>>, !.completed = <<"false">>]

\* handleSubmit's submitData: { ...formData, dueDate: formData.dueDate || null }.
submitData(form) == [form EXCEPT !.dueDate = IF Truthy(@) THEN @ ELSE Null]

CreatePosts ==
  {NoBody,
   submitData([formData EXCEPT !.title = <<"a">>]),
   submitData([formData EXCEPT !.title = <<"a">>, !.dueDate = IsoDate]),
   [NoBody EXCEPT !.title = <<>>],
   [NoBody EXCEPT !.title = <<" ", " ">>],
   [NoBody EXCEPT !.title = Null],
   [NoBody EXCEPT !.title = <<"a">>],
   [NoBody EXCEPT !.title = <<"a">>, !.completed = <<"true">>, !.userId = <<"u2">>],
   [NoBody EXCEPT !.title = <<" ", "b", " ">>, !.description = <<" ", "d", " ">>,
                  !.dueDate = IsoDate, !.priority = <<"high">>],
   [NoBody EXCEPT !.title = <<"a">>, !.priority = <<"low">>],
   [NoBody EXCEPT !.title = <<"a">>, !.priority = <<"medium">>],
   [NoBody EXCEPT !.title = <<"a">>, !.priority = <<"urgent">>],
   [NoBody EXCEPT !.title = <<"a">>, !.dueDate = <<"tomorrow">>],
   [NoBody EXCEPT !.title = <<"a">>, !.dueDate = Null]}

CreateRequests ==
  RequestsOf(OneUser, Ids(MaxTodos), CreatePosts,
             {[NoBody EXCEPT !.completed = <<"true">>]}, {NoQuery})
  \cup OneRejected

NextCreate == Step(CreateRequests, MaxTodos)

SpecCreate == Init /\ [][NextCreate]_vars

UpdatePosts ==
  {NoBody,
   [NoBody EXCEPT !.title = <<" ", " ">>],
   [NoBody EXCEPT !.title = <<"a">>],
   [NoBody EXCEPT !.title = <<"a">>, !.dueDate = <<"tomorrow">>]}

UpdatePuts ==
  {NoBody,
   [NoBody EXCEPT !.completed = <<"true">>],
   [NoBody EXCEPT !.completed = <<"false">>],
   [NoBody EXCEPT !.completed = <<"yes">>],
   [NoBody EXCEPT !.title = <<" ", "b", " ">>, !.priority = <<"high">>],
   [NoBody EXCEPT !.title = <<>>],
   [NoBody EXCEPT !.title = <<" ", " ">>],
   [NoBody EXCEPT !.priority = <<"urgent">>],
   [NoBody EXCEPT !.description = <<" ", "d">>, !.dueDate = IsoDate],
   [NoBody EXCEPT !.dueDate = <<"tomorrow">>],
   [NoBody EXCEPT !.dueDate = Null]}

UpdateQueries ==
  {NoQuery,
   [NoQuery EXCEPT !.page = <<"0">>],
   [NoQuery EXCEPT !.page = <<"x">>],
   [NoQuery EXCEPT !.page = <<>>],
   [NoQuery EXCEPT !.limit = <<"0">>],
   [NoQuery EXCEPT !.limit = <<"1", "0", "1">>],
   [NoQuery EXCEPT !.page = <<"1">>, !.limit = <<"1", "0", "0">>]}

UpdateRequests ==
  RequestsOf(OneUser, Ids(MaxTodos), UpdatePosts, UpdatePuts, UpdateQueries)
  \cup OneRejected

NextUpdate == Step(UpdateRequests, MaxTodos)

SpecUpdate == Init /\ [][NextUpdate]_vars

ListPosts ==
  {[NoBody EXCEPT !.title = <<"a">>],
   [NoBody EXCEPT !.title = <<"B">>, !.description = <<"c">>]}

ListQueries ==
  {[page |-> p, limit |-> l, search |-> z] :
     p \in {Undefined, <<"2">>, <<"3">>},
     l \in {Undefined, <<"1">>, <<"2">>},
     z \in {Undefined, <<"a">>, <<" ", "b", " ">>, <<"c">>}}

ListRequests ==
  {List(TokenOf("u1"), q) : q \in ListQueries}
  \cup {List(TokenOf("u2"), NoQuery),
        List(TokenOf("u2"), [NoQuery EXCEPT !.limit = <<"1", "0", "0">>])}
  \cup {Post(k, b) : k \in GoodTokens, b \in ListPosts}
  \cup {Delete(k, i) : k \in GoodTokens, i \in Ids(MaxListTodos)}
  \cup {Get(TokenOf("u1"), 1), Put(TokenOf("u1"), 1, NoBody)}
  \cup OneRejected

NextList == Step(ListRequests, MaxListTodos)

SpecList == Init /\ [][NextList]_vars

(***************************************************************************)
(* Properties.  A step serves the request req' from the state before it,  *)
(* so a property of one request is a property of every step.              *)
(***************************************************************************)
IdsOf(store) == {t._id : t \in store}

Caller(r) == authMiddleware(r.token)

ById == {"GET /:id", "PUT /:id", "DELETE /:id"}

\* The update's body passes the route's validation chain and the schema's
\* validators, so that the handler gets as far as looking the todo up.
PutAccepted(body) ==
  /\ updateErrors(body) = {}
  /\ ("title" \in UpdatePaths(updateSanitized(body)) => TitleValid(updateSanitized(body).title))

\* The request req' is made on the id of the stored todo t by an authenticated
\* account that does not own t.
CrossOwner(t) ==
  /\ Authenticated(req')
  /\ req'.method \in ById
  /\ req'.id = t._id
  /\ Caller(req') # t.userId

\* C1 as stated: every get, update or delete on another account's todo is
\* answered 404 and leaves the todo stored unchanged.
C1_CrossOwnerAlways404 ==
  [][\A t \in todos : CrossOwner(t) => res'.status = 404 /\ t \in todos']_vars

\* C1 as amended: a get or delete on another account's todo is answered 404; an
\* update is answered 404 when its body is accepted, and otherwise 400 or 500
\* before the todo is looked up; in each case the answer is the one the same
\* request gets on an id that was never issued, and the collection is unchanged.
C1_CrossOwnerHidden ==
  [][\A t \in todos :
       CrossOwner(t) =>
         /\ todos' = todos
         /\ res'.status \in {400, 404, 500}
         /\ (req'.method # "PUT /:id" \/ PutAccepted(req'.body) => res'.status = 404)
         /\ res' = router(todos, [req' EXCEPT !.id = nextId], nextId, now).res]_vars

\* A valid update of another account's todo was answered 404.
C1_Witness ==
  /\ req.method = "PUT /:id"
  /\ PutAccepted(req.body)
  /\ UpdatePaths(req.body) # {}
  /\ res.status = 404
  /\ \E t \in todos : t._id = req.id /\ Authenticated(req) /\ Caller(req) # t.userId

\* C2: a stored todo keeps its owner and its createdAt through every request,
\* and a created todo is owned by the account that created it.
C2_OwnerImmutable ==
  [][/\ \A t \in todos : \A u \in todos' :
          u._id = t._id => u.userId = t.userId /\ u.createdAt = t.createdAt
     /\ \A u \in todos' :
          u._id \notin IdsOf(todos) => u.userId = Caller(req') /\ u.createdAt = now]_vars

\* An id that was issued and is no longer stored: its todo was deleted.
Deleted(store, next) == (1..(next - 1)) \ IdsOf(store)

DeleteIsHard ==
  /\ (req'.method = "DELETE /:id" /\ res'.status = 200 =>
        /\ \E t \in todos :
             t._id = req'.id /\ t.userId = Caller(req') /\ todos' = todos \ {t}
        /\ req'.id \notin IdsOf(todos'))
  /\ (req'.method = "DELETE /:id" /\ res'.status # 200 => todos' = todos)
  /\ Deleted(todos, nextId) \subseteq Deleted(todos', nextId')
  /\ \A i \in 1..Len(res'.todos) : res'.todos[i]._id \notin Deleted(todos, nextId)

OnDeleted == Authenticated(req') /\ req'.method \in ById /\ req'.id \in Deleted(todos, nextId)

\* C8 as stated: a delete answered 200 removes exactly its todo, one answered 404
\* removes nothing, a deleted todo never comes back or is listed, and every
\* later get, update or delete on its id is answered 404.
C8_DeletedAlways404 ==
  [][DeleteIsHard /\ (OnDeleted => res'.status = 404)]_vars

\* C8 as amended: as stated, except that an update on a deleted id whose body
\* is rejected is answered 400 or 500 before the lookup; no request on a
\* deleted id is answered 200.
C8_HardDelete ==
  [][/\ DeleteIsHard
     /\ (OnDeleted =>
           /\ res'.status \in {400, 404, 500}
           /\ todos' = todos
           /\ (req'.method # "PUT /:id" \/ PutAccepted(req'.body) => res'.status = 404))]_vars

\* A get by the former owner on the id of a deleted todo was answered 404.
C8_Witness ==
  /\ req.method = "GET /:id"
  /\ Authenticated(req)
  /\ req.id \in Deleted(todos, nextId)
  /\ res.status = 404
  /\ todos # {}

\* C9: a request the middleware rejects is answered 401 without a store
\* operation, and every store operation of a request names the account the
\* middleware resolved for that request.
C9_GuardFirst ==
  /\ (req # NoRequest /\ ~Authenticated(req) => res.status = 401 /\ dbOps = <<>>)
  /\ \A i \in 1..Len(dbOps) : Authenticated(req) /\ dbOps[i].userId = Caller(req)

\* A create with a forged token was rejected while todos were stored.
C9_Witness ==
  /\ req.method = "POST /"
  /\ req.token = Forged
  /\ res.status = 401
  /\ todos # {}

(***************************************************************************)
(* Listing.                                                               *)
(***************************************************************************)
IsList(r) == Authenticated(r) /\ r.method = "GET /"

\* The page and page size a query asks for: the number it gives, or the
\* default.
PageOf(query) == IF query.page = Undefined THEN 1 ELSE DecimalValue(query.page)

PageSizeOf(query) == IF query.limit = Undefined THEN 10 ELSE DecimalValue(query.limit)

SearchTextOf(query) == IF query.search = Undefined THEN <<>> ELSE Trim(query.search)

ValidPaging(query) ==
  /\ query.page # Undefined => IsIntString(query.page) /\ PageOf(query) >= 1
  /\ query.limit # Undefined =>
       IsIntString(query.limit) /\ PageSizeOf(query) >= 1 /\ PageSizeOf(query) <= 100

\* The requester's todos that match the search text.
Matching(store, user, query) ==
  {t \in store : searchQuery(t, user, SearchTextOf(query))}

Newer(S, t) == {o \in S : o.createdAt > t.createdAt}

DigitOf(n) == CHOOSE c \in Digits : DigitVal(c) = n

\* The items of page p of the same listing.
PageItems(store, user, query, p) ==
  listTodos(store, user, [query EXCEPT !.page = <<DigitOf(p)>>]).res.todos

C4_Pagination ==
  IsList(req) /\ ValidPaging(req.query) =>
    LET page == PageOf(req.query)
        size == PageSizeOf(req.query)
        total == Cardinality(Matching(todos, Caller(req), req.query))
        pg == res.pagination
    IN  /\ res.status = 200
        /\ pg.currentPage = page
        /\ pg.totalTodos = total
        /\ pg.totalPages * size >= total
        /\ (pg.totalPages - 1) * size < total
        /\ pg.totalPages >= 0
        /\ pg.hasNextPage = (page < pg.totalPages)
        /\ pg.hasPrevPage = (page > 1)
        /\ (total = 0 \/ page > pg.totalPages => res.todos = <<>>)

\* A page past the last of a non-empty listing.
C4_Witness ==
  /\ IsList(req)
  /\ res.status = 200
  /\ res.pagination.totalTodos = 2
  /\ res.pagination.totalPages = 1
  /\ res.pagination.currentPage = 3
  /\ res.todos = <<>>

(***************************************************************************)
(* Creating and updating.                                                 *)
(***************************************************************************)
IsCreate(r) == Authenticated(r) /\ r.method = "POST /"

IsUpdate(r) == Authenticated(r) /\ r.method = "PUT /:id"

\* A title that is missing, empty, or empty after trimming.
Blank(title) == Trim(toString(title)) = <<>>

\* A due date that is given and is not a date.
Malformed(dueDate) == dueDate \notin ({Undefined, Null} \cup IsoDates)

\* C5: a create whose title is missing, empty or whitespace only is answered
\* 400 and persists nothing; a create answered 201 had a title that is
\* non-empty after trimming.
C5_BlankTitleRejected ==
  [][IsCreate(req') =>
       /\ (Blank(req'.body.title) => res'.status = 400 /\ todos' = todos)
       /\ (res'.status = 201 => ~Blank(req'.body.title))]_vars

\* The created todo of a step that answered 201: the one new document, which
\* the response carries.
Created(t) == t = res'.todo /\ t \notin todos /\ todos' = todos \cup {t}

\* C6 as stated: a create with a title and no bad date succeeds, whatever its
\* priority; the todo is owned by the caller, not completed, and has the
\* supplied priority when that is low, medium or high and medium otherwise.
C6_UnknownPriorityIsMedium ==
  [][IsCreate(req') /\ ~Blank(req'.body.title)
       /\ req'.body.dueDate \in ({Undefined} \cup IsoDates) =>
         /\ res'.status = 201
         /\ \E t \in todos' :
              /\ Created(t)
              /\ t.userId = Caller(req')
              /\ t.completed = FALSE
              /\ t.priority = IF req'.body.priority \in Priorities
                              THEN req'.body.priority ELSE Medium]_vars

\* C6 as amended: a create that succeeds persists a todo owned by the caller,
\* not completed, with the supplied priority when that is low, medium or high
\* and medium when the priority is omitted; a create with any other priority
\* is answered 400 and persists nothing.
C6_CreateDefaults ==
  [][IsCreate(req') =>
       /\ (res'.status = 201 =>
             \E t \in todos' :
               /\ Created(t)
               /\ t.userId = Caller(req')
               /\ t.completed = FALSE
               /\ req'.body.priority \in (Priorities \cup {Undefined})
               /\ t.priority = IF req'.body.priority = Undefined
                               THEN Medium ELSE req'.body.priority)
       /\ (req'.body.priority \notin (Priorities \cup {Undefined}) =>
             res'.status = 400 /\ todos' = todos)
       /\ (/\ ~Blank(req'.body.title)
           /\ req'.body.dueDate \in ({Undefined} \cup IsoDates)
           /\ req'.body.priority \in (Priorities \cup {Undefined})
           => res'.status = 201)]_vars

\* A create without a priority, whose body names another owner and says
\* completed, persisted a todo of the caller with the defaults.
C6_Witness ==
  /\ IsCreate(req)
  /\ req.body.priority = Undefined
  /\ req.body.userId = <<"u2">>
  /\ req.body.completed = <<"true">>
  /\ res.status = 201
  /\ res.todo \in todos
  /\ res.todo.priority = Medium
  /\ res.todo.userId = "u1"
  /\ ~res.todo.completed

\* The value an update stores for a field of its body.
Supplied(body, f) ==
  CASE f \in {"title", "description"} -> Trim(body[f])
    [] f = "dueDate" -> <<"Date", body[f][1]>>
    [] f = "priority" -> body[f]
    [] f = "completed" -> (body[f] = <<"true">>)
    [] f = "userId" -> body[f][1]

\* C7: an update answered 200 changes the fields its body holds, to the values
\* supplied, and no other field of the todo and no other todo; the response
\* carries the record as stored afterwards.
C7_UpdateFrame ==
  [][IsUpdate(req') /\ res'.status = 200 =>
       \E t \in todos :
         /\ t._id = req'.id
         /\ res'.todo \in todos'
         /\ todos' \ {res'.todo} = todos \ {t}
         /\ res'.todo._id = t._id
         /\ res'.todo.createdAt = t.createdAt
         /\ \A f \in DOMAIN req'.body :
              res'.todo[f] = IF req'.body[f] = Undefined THEN t[f]
                             ELSE Supplied(req'.body, f)]_vars

\* An update of the completed flag alone, on a todo whose other fields had
\* been updated, next to another todo.
C7_Witness ==
  /\ IsUpdate(req)
  /\ res.status = 200
  /\ UpdatePaths(req.body) = {"completed"}
  /\ res.todo.completed
  /\ res.todo.title = <<"b">>
  /\ res.todo.description = <<"d">>
  /\ Cardinality(todos) = 2

InvalidInput(r) ==
  CASE r.method = "GET /" -> ~ValidPaging(r.query)
    [] r.method = "POST /" -> Blank(r.body.title) \/ Malformed(r.body.dueDate)
    [] r.method = "PUT /:id" ->
         \/ r.body.title # Undefined /\ Blank(r.body.title)
         \/ r.body.priority \notin (Priorities \cup {Undefined})
         \/ r.body.completed \notin {Undefined, <<"true">>, <<"false">>}
         \/ Malformed(r.body.dueDate)
    [] OTHER -> FALSE

\* C10: a list, create or update with invalid input is answered 400 without a
\* store operation, the collection unchanged.
C10_InvalidIs400 ==
  [][Authenticated(req') /\ InvalidInput(req') =>
       res'.status = 400 /\ dbOps' = <<>> /\ todos' = todos]_vars

(***************************************************************************)
(* Searching: lists of one account over search texts with and without the *)
(* characters a regular expression reads as operators (SpecSearch).       *)
(***************************************************************************)
SearchPosts ==
  {[NoBody EXCEPT !.title = <<"a", "b">>],
   [NoBody EXCEPT !.title = <<"B">>, !.description = <<"a", ".", "c">>]}

SearchTexts ==
  {Undefined, <<>>, <<"a">>, <<"A", "B">>, <<"c">>, <<".">>, <<"a", ".">>, <<"b", ".">>}

SearchRequests ==
  {List(TokenOf("u1"), [NoQuery EXCEPT !.search = z]) : z \in SearchTexts}
  \cup {Post(k, b) : k \in GoodTokens, b \in SearchPosts}
  \cup {Delete(TokenOf("u1"), i) : i \in Ids(MaxTodos)}
  \cup {Get(TokenOf("u1"), 1), Put(TokenOf("u1"), 1, NoBody)}
  \cup OneRejected

NextSearch == Step(SearchRequests, MaxTodos)

SpecSearch == Init /\ [][NextSearch]_vars

\* needle occurs in text, letter case aside, character for character.
Contains(text, needle) ==
  /\ text # Undefined
  /\ \E i \in 0..(Len(text) - Len(needle)) :
       \A j \in 1..Len(needle) : Lower(needle[j]) = Lower(text[i + j])

\* The requester's todos that hold the search text in their title or their
\* description; all of them when there is no search text.
Holding(store, user, text) ==
  {t \in store :
     /\ t.userId = user
     /\ (text # <<>> => Contains(t.title, text) \/ Contains(t.description, text))}

\* C11: a list matches exactly the requester's todos whose title or description
\* holds the search text as a case-insensitive literal substring, whatever
\* characters the text is made of; every todo of the requester without a text.
C11_LiteralSubstring ==
  IsList(req) /\ res.status = 200 /\ req.query.page = Undefined
    /\ req.query.limit = Undefined =>
      LET expected == Holding(todos, Caller(req), SearchTextOf(req.query))
      IN  /\ res.pagination.totalTodos = Cardinality(expected)
          /\ {res.todos[i] : i \in 1..Len(res.todos)} = expected

\* C12: a create with a title and without a due date, the field left out or
\* sent as null (as the form sends a date left blank), is answered 201 and
\* persists a todo without a due date.
C12_DueDateOptional ==
  [][IsCreate(req') /\ ~Blank(req'.body.title)
       /\ req'.body.dueDate \in {Undefined, Null}
       /\ req'.body.priority \in (Priorities \cup {Undefined}) =>
         /\ res'.status = 201
         /\ \E t \in todos' : Created(t) /\ t.dueDate \in {Undefined, Null}]_vars

(***************************************************************************)
(* The list handler as the two store operations it awaits, with the       *)
(* creates and deletes of other requests between them (SpecRace).         *)
(***************************************************************************)
\* GET / up to `await Todo.find(...)`: the page is read.
ListFind(R) ==
  \E r \in R :
    /\ Authenticated(r) /\ r.method = "GET /"
    /\ listErrors(r.query) = {}
    /\ pending.stage # "found"
    /\ \E out \in {listTodos(todos, Caller(r), r.query)} :
         pending' = [stage |-> "found", req |-> r, list |-> out.res.todos, store |-> todos]
    /\ UNCHANGED <<todos, nextId, now, req, res, dbOps, client, net>>

\* GET / from `await Todo.countDocuments(...)` on: the matches are counted in
\* the collection as it is now, and the response is sent.
ListCount ==
  /\ pending.stage = "found"
  /\ \E out \in {listTodos(todos, Caller(pending.req), pending.req.query)} :
       res' = [out.res EXCEPT !.todos = pending.list]
  /\ req' = pending.req
  /\ dbOps' = <<DbOp("find", Caller(pending.req)),
               DbOp("countDocuments", Caller(pending.req))>>
  /\ pending' = [pending EXCEPT !.stage = "done"]
  /\ UNCHANGED <<todos, nextId, now, client, net>>

RaceQueries ==
  {[NoQuery EXCEPT !.page = p, !.limit = l] :
     p \in {Undefined, <<"2">>}, l \in {<<"1">>, <<"2">>}}

RaceRequests ==
  {List(TokenOf("u1"), q) : q \in RaceQueries}
  \cup {Post(k, [NoBody EXCEPT !.title = <<"a">>]) : k \in GoodTokens}
  \cup {Delete(TokenOf("u1"), i) : i \in Ids(MaxListTodos)}

NextRace ==
  \/ ListFind(RaceRequests)
  \/ ListCount
  \/ CreateTodo(RaceRequests, MaxListTodos)
  \/ DeleteTodo(RaceRequests)

SpecRace == Init /\ [][NextRace]_vars

\* C13: whatever a list handler's two store operations are interleaved with,
\* the number of items it returns is min(pageSize, max(0, totalTodos -
\* (page-1)*pageSize)), and hasNextPage says whether todos beyond the returned
\* page existed in the collection the items were read from.
C13_ListConsistent ==
  pending.stage = "done" /\ req = pending.req /\ res.status = 200 =>
    LET page == PageOf(req.query)
        size == PageSizeOf(req.query)
        rest == res.pagination.totalTodos - (page - 1) * size
        read == Matching(pending.store, Caller(req), req.query)
    IN  /\ Len(res.todos) = Min(size, IF rest > 0 THEN rest ELSE 0)
        /\ res.pagination.hasNextPage = (Cardinality(read) > page * size)

\* ---------------------------------------------------------------------------
\* The TodoList component, signed in as u1, against the same router.  `net`
\* holds the requests axios has sent and whose promise has not settled; a
\* request is served and its promise settled in one step, in any order.

ClientToken == TokenOf("u1")

ClientLimit == 6

maxVisiblePages == 5

SearchTerms == {<<>>, <<"a">>}

\* A number as axios writes it in the query string.
PageParam(p) == IF p < 0 THEN <<"-", DigitOf(0 - p)>> ELSE <<DigitOf(p)>>

\* fetchTodos' params for the render whose closure holds (page, search).
FetchParams(page, search) ==
  [page |-> PageParam(page), limit |-> PageParam(ClientLimit), search |-> search]

Sent(fid, method, id, completed, page, search) ==
  [fid |-> fid, method |-> method, id |-> id, completed |-> completed,
   page |-> page, search |-> search]

\* The GET that a call of fetchTodos sends from a render holding (page, search).
Fetch(fid, page, search) == Sent(fid, "GET", NoId, FALSE, page, search)

\* The component shows its page rather than the spinner, and no modal covers it.
Interactive ==
  /\ client.mounted
  /\ ~(client.loading /\ client.todos = <<>>)
  /\ ~client.showDeleteModal

\* The first render: the effect runs and fetches page 1 with no search text.
Mount ==
  /\ ~client.mounted
  /\ client' = [client EXCEPT !.mounted = TRUE, !.loading = TRUE, !.sent = 1]
  /\ net' = {Fetch(1, client.currentPage, client.searchTerm)}
  /\ UNCHANGED <<todos, nextId, now, req, res, dbOps, pending>>

\* setCurrentPage / setSearchTerm to a pair that differs from the current one:
\* the component renders again and the effect fetches with the new pair.
Navigate(page, term) ==
  /\ page # client.currentPage \/ term # client.searchTerm
  /\ client.sent + 1 <= MaxFetches
  /\ client' = [client EXCEPT !.currentPage = page, !.searchTerm = term,
                              !.loading = TRUE, !.sent = @ + 1]
  /\ net' = net \cup {Fetch(client.sent + 1, page, term)}
  /\ UNCHANGED <<todos, nextId, now, req, res, dbOps, pending>>

\* renderPagination draws its items only for a pagination of several pages.
PaginationShown ==
  /\ Interactive
  /\ client.pagination # NoPagination
  /\ client.pagination.totalPages > 1

Max(a, b) == IF a > b THEN a ELSE b

VisiblePages ==
  LET half == maxVisiblePages \div 2
      start == Max(1, client.currentPage - half)
      endPage == Min(client.pagination.totalPages, start + maxVisiblePages - 1)
      startPage == IF endPage - start + 1 < maxVisiblePages
                   THEN Max(1, endPage - maxVisiblePages + 1) ELSE start
  IN  startPage..endPage

PageItem == PaginationShown /\ \E n \in VisiblePages : Navigate(n, client.searchTerm)

PagePrev ==
  /\ PaginationShown
  /\ client.pagination.hasPrevPage
  /\ Navigate(client.currentPage - 1, client.searchTerm)

PageNext ==
  /\ PaginationShown
  /\ client.pagination.hasNextPage
  /\ Navigate(client.currentPage + 1, client.searchTerm)

handleSearchChange ==
  /\ Interactive
  /\ \E value \in SearchTerms :
       Navigate(IF value = <<>> THEN 1 ELSE client.currentPage, value)

ClearSearch == Interactive /\ Truthy(client.searchTerm) /\ Navigate(1, <<>>)

\* handleSearch: setCurrentPage(1), then fetchTodos() of the render that drew
\* the form, whose closure still holds the page it was drawn for; when that
\* page was not 1 the effect then fetches page 1 as well.
handleSearch ==
  /\ Interactive
  /\ LET moved == client.currentPage # 1
         n == IF moved THEN 2 ELSE 1
     IN  /\ client.sent + n <= MaxFetches
         /\ client' = [client EXCEPT !.currentPage = 1, !.loading = TRUE,
                                     !.sent = @ + n]
         /\ net' = net
              \cup {Fetch(client.sent + 1, client.currentPage, client.searchTerm)}
              \cup IF moved THEN {Fetch(client.sent + 2, 1, client.searchTerm)}
                   ELSE {}
  /\ UNCHANGED <<todos, nextId, now, req, res, dbOps, pending>>

\* toggleTodoStatus: the PUT is sent; fetchTodos follows when it succeeds, from
\* the closure of the render that drew the button.
toggleTodoStatus ==
  /\ Interactive
  /\ client.sent + 2 <= MaxFetches
  /\ \E i \in 1..Len(client.todos) :
       net' = net \cup {Sent(client.sent + 1, "PUT", client.todos[i]._id,
                             ~client.todos[i].completed,
                             client.currentPage, client.searchTerm)}
  /\ client' = [client EXCEPT !.sent = @ + 2]
  /\ UNCHANGED <<todos, nextId, now, req, res, dbOps, pending>>

handleDeleteClick ==
  /\ Interactive
  /\ \E i \in 1..Len(client.todos) :
       client' = [client EXCEPT !.todoToDelete = client.todos[i],
                                !.showDeleteModal = TRUE]
  /\ UNCHANGED <<todos, nextId, now, req, res, dbOps, pending, net>>

\* The modal's Cancel button, close button and onHide.
CancelDelete ==
  /\ client.showDeleteModal
  /\ client' = [client EXCEPT !.showDeleteModal = FALSE]
  /\ UNCHANGED <<todos, nextId, now, req, res, dbOps, pending, net>>

confirmDelete ==
  /\ client.showDeleteModal
  /\ client.sent + 2 <= MaxFetches
  /\ net' = net \cup {Sent(client.sent + 1, "DELETE", client.todoToDelete._id,
                           FALSE, client.currentPage, client.searchTerm)}
  /\ client' = [client EXCEPT !.sent = @ + 2]
  /\ UNCHANGED <<todos, nextId, now, req, res, dbOps, pending>>

\* A GET is answered: setTodos and setPagination with whatever arrived, or the
\* error alone when the request failed.
FetchDone ==
  \E m \in net :
    /\ m.method = "GET"
    /\ Serve(List(ClientToken, FetchParams(m.page, m.search)))
    /\ client' = IF res'.status = 200
                 THEN [client EXCEPT !.todos = res'.todos,
                                     !.pagination = res'.pagination,
                                     !.error = FALSE, !.loading = FALSE,
                                     !.shown = [page |-> m.page, search |-> m.search]]
                 ELSE [client EXCEPT !.error = TRUE, !.loading = FALSE]
    /\ net' = net \ {m}

PutDone ==
  \E m \in net :
    /\ m.method = "PUT"
    /\ Serve(Put(ClientToken, m.id,
                 [NoBody EXCEPT !.completed = IF m.completed THEN <<"true">>
                                              ELSE <<"false">>]))
    /\ IF res'.status = 200
       THEN /\ client' = [client EXCEPT !.loading = TRUE]
            /\ net' = (net \ {m}) \cup {Fetch(m.fid + 1, m.page, m.search)}
       ELSE /\ client' = [client EXCEPT !.error = TRUE]
            /\ net' = net \ {m}

DeleteDone ==
  \E m \in net :
    /\ m.method = "DELETE"
    /\ Serve(Delete(ClientToken, m.id))
    /\ IF res'.status = 200
       THEN /\ client' = [client EXCEPT !.showDeleteModal = FALSE,
                                        !.todoToDelete = NoTodo, !.loading = TRUE]
            /\ net' = (net \ {m}) \cup {Fetch(m.fid + 1, m.page, m.search)}
       ELSE /\ client' = [client EXCEPT !.error = TRUE]
            /\ net' = net \ {m}

\* The account's todos when the component is opened: SeedTodos posts of the
\* form with a due date, the oldest titled "b" and the others "a".
SeedBody(n) ==
  submitData([formData EXCEPT !.title = IF n = 1 THEN <<"b">> ELSE <<"a">>,
                              !.dueDate = IsoDate])

RECURSIVE Seeded(_)
Seeded(n) ==
  IF n = 0 THEN {}
  ELSE createTodo(Seeded(n - 1), "u1", SeedBody(n), n, n).todos

InitClient ==
  /\ todos = Seeded(SeedTodos)
  /\ nextId = SeedTodos + 1
  /\ now = SeedTodos + 1
  /\ req = NoRequest
  /\ res = Status(0)
  /\ dbOps = <<>>
  /\ pending = NoPending
  /\ client = Unmounted
  /\ net = {}

NextClient ==
  \/ Mount
  \/ PageItem
  \/ PagePrev
  \/ PageNext
  \/ handleSearchChange
  \/ ClearSearch
  \/ handleSearch
  \/ toggleTodoStatus
  \/ handleDeleteClick
  \/ CancelDelete
  \/ confirmDelete
  \/ FetchDone
  \/ PutDone
  \/ DeleteDone

SpecClient == InitClient /\ [][NextClient]_vars

\* C14: once no request of the component is in flight, the todos and the
\* pagination on display are those of a response to the request made for the
\* current (currentPage, searchTerm), whatever the order the responses came in;
\* in particular a search submitted on a later page does not end with that
\* page's results on display.  `shown` is NoShown until a response is applied.
C14_LatestDisplayed ==
  client.mounted /\ net = {} /\ ~client.error =>
    client.shown = [page |-> client.currentPage, search |-> client.searchTerm]
====
